---- MODULE Spec2Model ----
(***************************************************************************)
(* Oli3D Admin Manager (src/admin.py): the JSON document store, the        *)
(* catalog validator, the product/category mutation routes and the         *)
(* validate-then-commit checkpoint, as a state machine.                    *)
(*                                                                         *)
(* Representation.  A JSON object is a TLA+ record whose DOMAIN is the set *)
(* of keys present, so "key absent" and "key present with a falsy value"   *)
(* are different records.  Text the code inspects character by character   *)
(* (ids, price text) is a sequence of one-character strings; text the code *)
(* only stores or tests for emptiness (names, icons, ...) is a string.     *)
(* Prices are integers (the integral floats).                              *)
(***************************************************************************)
EXTENDS Integers, Sequences, FiniteSets, TLC

VARIABLES
    products,     \* db/products.json: the list under key "products"
    categories,   \* db/categories.json: the list under key "categories"
    settings,     \* db/settings.json: the settings object
    head,         \* git: the db/ snapshot of the last commit (HEAD)
    staged,       \* git: TRUE when the index holds db/ changes not in HEAD
    resp,         \* the last request and the response it got
    inflight      \* per server thread: the request it is in the middle of

vars == <<products, categories, settings, head, staged, resp, inflight>>

(***************************************************************************)
(* Bounds of the model.                                                    *)
(***************************************************************************)
MaxProducts == 2        \* records in products.json
MaxCategories == 2      \* records in categories.json
MaxCatRefs == 1         \* entries of a submitted categories list
MaxCkProducts == 1      \* products.json records in the checkpoint machine
MaxCkCategories == 1    \* categories.json records in the checkpoint machine
MaxVProducts == 2       \* products of a hand-written catalog
MaxVCategories == 2     \* categories of a hand-written catalog
MaxThreads == 2         \* requests the server handles at the same time
MaxDocRecords == 2      \* records of a document that is loaded and saved back

(***************************************************************************)
(* Python helpers.                                                         *)
(***************************************************************************)
\* dict.get(key, default)
Get(d, key, default) == IF key \in DOMAIN d THEN d[key] ELSE default

\* key in dict
Has(d, key) == key \in DOMAIN d

\* dict with d[key] = val set (key added when absent)
SetKey(d, key, val) ==
    [k \in DOMAIN d \cup {key} |-> IF k = key THEN val ELSE d[k]]

\* del d[key] when present
DelKey(d, key) == [k \in DOMAIN d \ {key} |-> d[k]]

\* all lists over S of length at most n
SeqsUpTo(S, n) == UNION {[1..k -> S] : k \in 0..n}

\* str.lower() on one character, over the alphabet of the model
LowerChar(ch) ==
    CASE ch = "A" -> "a"
      [] ch = "B" -> "b"
      [] ch = "L" -> "l"
      [] OTHER -> ch

\* .lower().replace(' ', '_')  (new_product, new_category)
NormalizeIdSpaceKept(text) == [i \in DOMAIN text |-> LowerChar(text[i])]
NormalizeId(text) ==
    [i \in DOMAIN text |->
        IF LowerChar(text[i]) = " " THEN "_" ELSE LowerChar(text[i])]

(***************************************************************************)
(* Catalog validator: validate_database.                                   *)
(* An error or warning is a record [kind, ...] holding the values the      *)
(* message string interpolates.                                            *)
(***************************************************************************)
\* the '?' that p.get('id', '?') and p.get('name', '?') fall back to
UnknownId == <<"?">>
UnknownName == "?"

\* not p.get('id'): the key is absent or the id is the empty string
IdMissing(r) == ~Has(r, "id") \/ r.id = <<>>

\* not p.get('name')
NameMissing(r) == ~Has(r, "name") \/ r.name = ""

\* not p.get('price'): the key is absent or the price is 0
PriceFalsy(p) == ~Has(p, "price") \/ p.price = 0

\* not p.get('price') and p.get('price') != 0
PriceMissing(p) == PriceFalsy(p) /\ ~(Has(p, "price") /\ p.price = 0)

\* not p.get('categories'): the key is absent or the list is empty
CategoriesMissing(p) == ~Has(p, "categories") \/ p.categories = <<>>

\* not p.get('image')
ImageMissing(p) == ~Has(p, "image") \/ p.image = <<>>

\* category_ids = {c['id'] for c in categories} raises KeyError when a
\* category has no 'id' key
CategoryIdsRaises(cs) == \E i \in DOMAIN cs : ~Has(cs[i], "id")
CategoryIds(cs) == {cs[i].id : i \in DOMAIN cs}

\* the id branch of one product: without id / duplicate / remembered
ProductIdErrors(p, seen) ==
    IF IdMissing(p) THEN <<[kind |-> "product_without_id"]>>
    ELSE IF p.id \in seen THEN <<[kind |-> "duplicate_product_id", id |-> p.id]>>
    ELSE <<>>

SeenAfter(r, seen) ==
    IF ~IdMissing(r) /\ r.id \notin seen THEN seen \cup {r.id} ELSE seen

ProductNameErrors(p) ==
    IF NameMissing(p)
    THEN <<[kind |-> "product_without_name", id |-> Get(p, "id", UnknownId)]>>
    ELSE <<>>

ProductPriceErrors(p) ==
    IF PriceMissing(p)
    THEN <<[kind |-> "product_without_price", id |-> Get(p, "id", UnknownId)]>>
    ELSE <<>>

\* one error per listed category that is not in category_ids, in list order
DanglingRefs(p, catIds) == SelectSeq(p.categories, LAMBDA c : c \notin catIds)

ProductCategoryErrorsNone(p, catIds) == <<>>
ProductCategoryErrors(p, catIds) ==
    IF CategoriesMissing(p) THEN <<>>
    ELSE [i \in DOMAIN DanglingRefs(p, catIds) |->
            [kind |-> "nonexistent_category",
             name |-> Get(p, "name", UnknownName),
             category |-> DanglingRefs(p, catIds)[i]]]

ProductCategoryWarnings(p) ==
    IF CategoriesMissing(p)
    THEN IF Has(p, "name")
         THEN <<[kind |-> "product_without_categories", name |-> p.name]>>
         ELSE <<[kind |-> "product_without_categories",
                 id |-> Get(p, "id", UnknownId)]>>
    ELSE <<>>

ProductImageWarnings(p) ==
    IF ImageMissing(p)
    THEN <<[kind |-> "product_without_image",
            name |-> Get(p, "name", UnknownName)]>>
    ELSE <<>>

ProductErrors(p, seen, catIds) ==
    ProductIdErrors(p, seen) \o ProductNameErrors(p) \o ProductPriceErrors(p)
        \o ProductCategoryErrors(p, catIds)

ProductWarnings(p) == ProductCategoryWarnings(p) \o ProductImageWarnings(p)

\* for p in products: ...   (from position i, product_ids = seen)
RECURSIVE CheckProducts(_, _, _, _)
CheckProducts(ps, i, seen, catIds) ==
    IF i > Len(ps) THEN [errors |-> <<>>, warnings |-> <<>>]
    ELSE LET rest == CheckProducts(ps, i + 1, SeenAfter(ps[i], seen), catIds)
         IN [errors |-> ProductErrors(ps[i], seen, catIds) \o rest.errors,
             warnings |-> ProductWarnings(ps[i]) \o rest.warnings]

CategoryIdErrors(c, seen) ==
    IF IdMissing(c) THEN <<[kind |-> "category_without_id"]>>
    ELSE IF c.id \in seen THEN <<[kind |-> "duplicate_category_id", id |-> c.id]>>
    ELSE <<>>

CategoryNameErrors(c) ==
    IF NameMissing(c)
    THEN <<[kind |-> "category_without_name", id |-> Get(c, "id", UnknownId)]>>
    ELSE <<>>

\* for c in categories: ...   (from position i, cat_ids = seen)
RECURSIVE CheckCategories(_, _, _)
CheckCategories(cs, i, seen) ==
    IF i > Len(cs) THEN <<>>
    ELSE CategoryIdErrors(cs[i], seen) \o CategoryNameErrors(cs[i])
            \o CheckCategories(cs, i + 1, SeenAfter(cs[i], seen))

AllErrors(ps, cs) ==
    CheckProducts(ps, 1, {}, CategoryIds(cs)).errors \o CheckCategories(cs, 1, {})

\* validate_database(): the report, or the KeyError it raises
ValidateDatabase(ps, cs) ==
    IF CategoryIdsRaises(cs) THEN [raised |-> "KeyError"]
    ELSE [valid |-> Len(AllErrors(ps, cs)) = 0,
          errors |-> AllErrors(ps, cs),
          warnings |-> CheckProducts(ps, 1, {}, CategoryIds(cs)).warnings,
          product_count |-> Len(ps),
          category_count |-> Len(cs)]

Raised(r) == Has(r, "raised")

(***************************************************************************)
(* Text parsing used by the product routes.                                *)
(***************************************************************************)
IsSpace(ch) == ch \in {" ", "\n", "\t"}

RECURSIVE LStrip(_)
LStrip(s) == IF s # <<>> /\ IsSpace(Head(s)) THEN LStrip(Tail(s)) ELSE s

RECURSIVE RStrip(_)
RStrip(s) ==
    IF s # <<>> /\ IsSpace(s[Len(s)]) THEN RStrip(SubSeq(s, 1, Len(s) - 1)) ELSE s

\* str.strip()
Strip(s) == RStrip(LStrip(s))

\* str.split(sep): at least one part, empty parts kept
RECURSIVE Split(_, _)
Split(s, sep) ==
    IF \A i \in DOMAIN s : s[i] # sep THEN <<s>>
    ELSE LET k == CHOOSE i \in DOMAIN s :
                      s[i] = sep /\ \A j \in 1..(i - 1) : s[j] # sep
         IN <<SubSeq(s, 1, k - 1)>> \o Split(SubSeq(s, k + 1, Len(s)), sep)

Digits == {"0", "1", "2", "3", "4", "5", "6", "7", "8", "9"}

DigitVal(ch) ==
    CASE ch = "0" -> 0 [] ch = "1" -> 1 [] ch = "2" -> 2 [] ch = "3" -> 3
      [] ch = "4" -> 4 [] ch = "5" -> 5 [] ch = "6" -> 6 [] ch = "7" -> 7
      [] ch = "8" -> 8 [] ch = "9" -> 9

RECURSIVE DecimalVal(_)
DecimalVal(ds) ==
    IF ds = <<>> THEN 0
    ELSE 10 * DecimalVal(SubSeq(ds, 1, Len(ds) - 1)) + DigitVal(ds[Len(ds)])

IsDecimal(ds) == ds # <<>> /\ \A i \in DOMAIN ds : ds[i] \in Digits

\* int(text) / float(text) on the texts of the model: surrounding
\* whitespace is ignored, one sign is allowed, the rest must be decimal
\* digits; anything else raises ValueError.
SignedDecimal(t) ==
    IF t # <<>> /\ Head(t) \in {"-", "+"}
    THEN IF IsDecimal(Tail(t))
         THEN [ok |-> TRUE,
               value |-> IF Head(t) = "-" THEN 0 - DecimalVal(Tail(t))
                         ELSE DecimalVal(Tail(t))]
         ELSE [ok |-> FALSE]
    ELSE IF IsDecimal(t) THEN [ok |-> TRUE, value |-> DecimalVal(t)]
         ELSE [ok |-> FALSE]

ParseInt(text) == SignedDecimal(Strip(text))
ParseFloat(text) == SignedDecimal(Strip(text))

(***************************************************************************)
(* Product and category records built from a submitted form.               *)
(* A form is a record whose DOMAIN is the set of fields submitted; a       *)
(* checkbox is submitted exactly when it is checked.  The fields 'id',     *)
(* 'name' and 'price', which the routes read with request.form[...], are   *)
(* always submitted.                                                       *)
(***************************************************************************)
DefaultImage == <<"resources/LOGO_SIN_FONDO.png">>
DefaultMaterial == "PLA"
DefaultIcon == "package"          \* the package emoji
UnitsSuffix == <<"+", " ", "u", "n", "i", "d", "a", "d", "e", "s">>

MainImage(form) == Get(form, "image", DefaultImage)

\* the stripped non-blank lines of a text, in order
NonBlankLines(text) ==
    LET lines == Split(text, "\n")
        kept == SelectSeq(lines, LAMBDA l : Strip(l) # <<>>)
    IN [i \in DOMAIN kept |-> Strip(kept[i])]

\* images = [main_image] + the non-blank lines of additional_images
ImagesListKeepingBlanks(form) ==
    LET additional == Strip(Get(form, "additional_images", <<>>))
        lines == Split(additional, "\n")
    IN IF additional # <<>>
       THEN <<MainImage(form)>> \o [i \in DOMAIN lines |-> Strip(lines[i])]
       ELSE <<MainImage(form)>>
ImagesList(form) ==
    LET additional == Strip(Get(form, "additional_images", <<>>))
    IN IF additional # <<>> THEN <<MainImage(form)>> \o NonBlankLines(additional)
       ELSE <<MainImage(form)>>

\* one line of the priceOffers text: the offer it yields, or none
OfferOfLine(line) ==
    LET parts == Split(Strip(line), ",")
    IN IF Len(parts) >= 2 /\ ParseInt(parts[1]).ok /\ ParseFloat(parts[2]).ok
       THEN <<[quantity |-> ParseInt(parts[1]).value,
               price |-> ParseFloat(parts[2]).value,
               label |-> IF Len(parts) > 2 THEN parts[3]
                         ELSE parts[1] \o UnitsSuffix]>>
       ELSE <<>>

RECURSIVE OffersOfLines(_)
OffersOfLines(lines) ==
    IF lines = <<>> THEN <<>>
    ELSE OfferOfLine(Head(lines)) \o OffersOfLines(Tail(lines))

\* the offers list parsed from the form (empty when there is no text)
ParseOffersFirstLine(form) ==
    LET text == Strip(Get(form, "priceOffers", <<>>))
    IN IF text # <<>> THEN OfferOfLine(Head(Split(text, "\n"))) ELSE <<>>
ParseOffers(form) ==
    LET text == Strip(Get(form, "priceOffers", <<>>))
    IN IF text # <<>> THEN OffersOfLines(Split(text, "\n")) ELSE <<>>

\* float(request.form['price']) raises ValueError
PriceRaises(form) == ~ParseFloat(form.price).ok

\* new_product: the record appended (when the price parses)
NewProductRecord(form, today) ==
    LET base == [id |-> NormalizeId(form.id),
                 name |-> form.name,
                 description |-> Get(form, "description", ""),
                 price |-> ParseFloat(form.price).value,
                 image |-> MainImage(form),
                 highlighted |-> Has(form, "highlighted"),
                 categories |-> Get(form, "categories", <<>>),
                 size |-> Get(form, "size", ""),
                 material |-> Get(form, "material", DefaultMaterial),
                 createdAt |-> today]
        r1 == IF Len(ImagesList(form)) > 1
              THEN SetKey(base, "images", ImagesList(form)) ELSE base
        r2 == IF Get(form, "wallapopLink", "") # ""
              THEN SetKey(r1, "wallapopLink", form.wallapopLink) ELSE r1
        r3 == IF Has(form, "hidden") THEN SetKey(r2, "hidden", TRUE) ELSE r2
    IN IF ParseOffers(form) # <<>>
       THEN SetKey(r3, "priceOffers", ParseOffers(form)) ELSE r3

\* edit_product: the assignments and deletions of the POST branch
UpdatedProduct(product, form) ==
    LET r0 == [k \in DOMAIN product \cup
                    {"name", "description", "price", "image", "highlighted",
                     "categories", "size", "material"} |->
                 CASE k = "name" -> form.name
                   [] k = "description" -> Get(form, "description", "")
                   [] k = "price" -> ParseFloat(form.price).value
                   [] k = "image" -> MainImage(form)
                   [] k = "highlighted" -> Has(form, "highlighted")
                   [] k = "categories" -> Get(form, "categories", <<>>)
                   [] k = "size" -> Get(form, "size", "")
                   [] k = "material" -> Get(form, "material", DefaultMaterial)
                   [] OTHER -> product[k]]
        r1 == IF Len(ImagesList(form)) > 1
              THEN SetKey(r0, "images", ImagesList(form)) ELSE DelKey(r0, "images")
        r2 == IF Get(form, "wallapopLink", "") # ""
              THEN SetKey(r1, "wallapopLink", form.wallapopLink)
              ELSE DelKey(r1, "wallapopLink")
        r3 == IF Has(form, "hidden") THEN SetKey(r2, "hidden", TRUE)
              ELSE DelKey(r2, "hidden")
    IN IF ParseOffers(form) # <<>>
       THEN SetKey(r3, "priceOffers", ParseOffers(form))
       ELSE DelKey(r3, "priceOffers")

\* edit_product: the record after the in-place update (when the price parses)
EditedProductWithFormId(product, form) ==
    SetKey(UpdatedProduct(product, form), "id", NormalizeId(form.id))
EditedProduct(product, form) == UpdatedProduct(product, form)

\* new_category: the record appended
NewCategoryRecord(form) ==
    LET base == [id |-> NormalizeId(form.id),
                 name |-> form.name,
                 icon |-> Get(form, "icon", DefaultIcon),
                 popular |-> Has(form, "popular")]
        r1 == IF Has(form, "seasonal") THEN SetKey(base, "seasonal", TRUE) ELSE base
    IN IF Has(form, "hidden") THEN SetKey(r1, "hidden", TRUE) ELSE r1

\* edit_category: the record after the in-place update
EditedCategoryStoringFalse(category, form) ==
    [k \in DOMAIN category \cup {"name", "icon", "popular", "seasonal", "hidden"} |->
       CASE k = "name" -> form.name
         [] k = "icon" -> Get(form, "icon", DefaultIcon)
         [] k = "popular" -> Has(form, "popular")
         [] k = "seasonal" -> Has(form, "seasonal")
         [] k = "hidden" -> Has(form, "hidden")
         [] OTHER -> category[k]]
EditedCategoryWithFormId(category, form) ==
    [k \in DOMAIN category \cup {"name", "icon", "popular"} |->
       CASE k = "id" -> NormalizeId(form.id)
         [] k = "name" -> form.name
         [] k = "icon" -> Get(form, "icon", DefaultIcon)
         [] k = "popular" -> Has(form, "popular")
         [] OTHER -> category[k]]
EditedCategory(category, form) ==
    LET r0 == [k \in DOMAIN category \cup {"name", "icon", "popular"} |->
                 CASE k = "name" -> form.name
                   [] k = "icon" -> Get(form, "icon", DefaultIcon)
                   [] k = "popular" -> Has(form, "popular")
                   [] OTHER -> category[k]]
        r1 == IF Has(form, "seasonal") THEN SetKey(r0, "seasonal", TRUE)
              ELSE DelKey(r0, "seasonal")
    IN IF Has(form, "hidden") THEN SetKey(r1, "hidden", TRUE)
       ELSE DelKey(r1, "hidden")

\* any(r['id'] == an_id for r in records)
AnyWithIdNever(records, an_id) == FALSE
AnyWithId(records, an_id) == \E i \in DOMAIN records : records[i].id = an_id

\* next((r for r in records if r['id'] == an_id), None): its position, 0 for None
FirstWithIdOrFirst(records, an_id) ==
    IF AnyWithId(records, an_id)
    THEN CHOOSE i \in DOMAIN records :
            records[i].id = an_id /\ \A j \in 1..(i - 1) : records[j].id # an_id
    ELSE IF records # <<>> THEN 1 ELSE 0
FirstWithIdLast(records, an_id) ==
    IF AnyWithId(records, an_id)
    THEN CHOOSE i \in DOMAIN records :
            records[i].id = an_id
            /\ \A j \in (i + 1)..Len(records) : records[j].id # an_id
    ELSE 0
FirstWithId(records, an_id) ==
    IF AnyWithId(records, an_id)
    THEN CHOOSE i \in DOMAIN records :
            records[i].id = an_id /\ \A j \in 1..(i - 1) : records[j].id # an_id
    ELSE 0

\* [r for r in records if r['id'] != an_id]
WithoutIdOrLast(records, an_id) ==
    IF \E i \in DOMAIN records : records[i].id = an_id
    THEN SelectSeq(records, LAMBDA r : r.id # an_id)
    ELSE SubSeq(records, 1, Len(records) - 1)
WithoutId(records, an_id) == SelectSeq(records, LAMBDA r : r.id # an_id)

(***************************************************************************)
(* Git: change detection and the commit capability.                        *)
(***************************************************************************)
Snapshot(ps, cs, st) == [products |-> ps, categories |-> cs, settings |-> st]

WorkTree == Snapshot(products, categories, settings)

\* git status --porcelain db/ prints something: the index differs from HEAD
\* (staged changes), or the work tree differs from the index.  With the
\* index equal to HEAD the second is "the work tree differs from HEAD"; so
\* the status depends on the index only through staged.
StatusDirtyStagedOnly(wt, hd, st) == st
StatusDirty(wt, hd, st) == st \/ wt # hd

\* has_uncommitted_changes()
HasUncommittedChanges == StatusDirty(WorkTree, head, staged)

MsgCommitted == "Cambios guardados correctamente"
MsgCommitFailed == "Error al guardar"
MsgHasErrors == "La base de datos tiene errores"

\* What the two git subprocesses can do: git add exits non-zero (check=True
\* raises CalledProcessError); git commit exits 0, or exits non-zero with
\* some stderr, or subprocess.run raises.
GitOutcomes ==
    <<[add |-> "ok", commit |-> "rc1", stderr |-> ""],
      [add |-> "ok", commit |-> "rc1",
       stderr |-> "fatal: unable to auto-detect email address"],
      [add |-> "ok", commit |-> "rc0"],
      [add |-> "raises",
       text |-> "Command git add db/ returned non-zero exit status 128."],
      [add |-> "ok", commit |-> "raises", text |-> ""]>>

\* git commit exits 0 only when the index holds something to commit
GitOutcomePossible(o, wt, hd) ==
    (o.add = "ok" /\ o.commit = "rc0") => wt # hd

\* git_commit(message): the dict it returns
GitCommitResult(o) ==
    IF o.add = "raises" THEN [success |-> FALSE, message |-> o.text]
    ELSE IF o.commit = "rc0" THEN [success |-> TRUE, message |-> MsgCommitted]
    ELSE IF o.commit = "rc1"
         THEN [success |-> FALSE,
               message |-> IF o.stderr # "" THEN o.stderr ELSE MsgCommitFailed]
         ELSE [success |-> FALSE, message |-> o.text]

\* git_commit(message): git add db/ makes the index the work tree; a
\* commit that exits 0 makes HEAD the index
GitStagedAfter(o, wt, hd, st) ==
    IF o.add = "ok" THEN (o.commit # "rc0" /\ wt # hd) ELSE st
GitHeadAfterNoAdd(o, wt, hd) == hd
GitHeadAfter(o, wt, hd) == IF o.add = "ok" /\ o.commit = "rc0" THEN wt ELSE hd

(***************************************************************************)
(* Requests the store machine is driven with.                              *)
(***************************************************************************)
IdAll == <<"a", "l", "l">>
ProductIdTexts == {<<"A", " ">>, <<"a", "_">>, <<"b">>}
CategoryIdTexts == {IdAll, <<"A", " ">>}
UnknownUrlId == <<"z">>
ProductUrlIds == {NormalizeId(t) : t \in ProductIdTexts} \cup {UnknownUrlId}
CategoryUrlIds == {NormalizeId(t) : t \in CategoryIdTexts} \cup {UnknownUrlId}
Names == {"", "Widget"}
PriceTexts == {<<"0">>, <<"x">>}
RefIds == {IdAll}
Dates == {"2024-05-01"}

ProductForms ==
    {[id |-> i, name |-> n, price |-> p, categories |-> c] :
        i \in ProductIdTexts, n \in Names, p \in PriceTexts,
        c \in SeqsUpTo(RefIds, MaxCatRefs)}

CategoryForms == {[id |-> i, name |-> n] : i \in CategoryIdTexts, n \in Names}

SettingsForms == {[showPrices |-> "on"], [other |-> "on"]}

(***************************************************************************)
(* The routes.  resp records the request and the response it got.          *)
(***************************************************************************)
Redirect(op, target, kind, message) ==
    [op |-> op, id |-> target, status |-> 302, type |-> kind, message |-> message]

\* the redirect after an update, with the 'id' field the form carried
Edited(op, target, form_id, message) ==
    [op |-> op, id |-> target, status |-> 302, type |-> "success",
     message |-> message, form_id |-> form_id]

\* GET /api/validate
ApiValidate ==
    /\ resp' = [op |-> "api_validate",
                report |-> ValidateDatabase(products, categories)]
    /\ UNCHANGED <<products, categories, settings, head, staged, inflight>>

\* if not validation['valid']: return ... (the gate of api_commit)
CommitRefusedNever(validation) == FALSE
CommitRefused(validation) == ~validation.valid

\* return jsonify(result): the body is what git_commit returned
CommitResponse(result) == result

\* POST /api/commit
ApiCommit ==
    LET validation == ValidateDatabase(products, categories)
    IN IF Raised(validation)
       THEN /\ resp' = [op |-> "api_commit", status |-> 500, git_calls |-> 0]
            /\ UNCHANGED <<products, categories, settings, head, staged, inflight>>
       ELSE IF CommitRefused(validation)
       THEN /\ resp' = [op |-> "api_commit", status |-> 200, git_calls |-> 0,
                        body |-> [success |-> FALSE, message |-> MsgHasErrors]]
            /\ UNCHANGED <<products, categories, settings, head, staged, inflight>>
       ELSE \E n \in DOMAIN GitOutcomes :
            LET o == GitOutcomes[n] IN
            /\ GitOutcomePossible(o, WorkTree, head)
            /\ resp' = [op |-> "api_commit", status |-> 200, git_calls |-> 1,
                        body |-> CommitResponse(GitCommitResult(o)),
                        git |-> GitCommitResult(o)]
            /\ staged' = GitStagedAfter(o, WorkTree, head, staged)
            /\ head' = GitHeadAfter(o, WorkTree, head)
            /\ UNCHANGED <<products, categories, settings, inflight>>

\* POST /settings/save
SaveSettingsRoute ==
    \E form \in SettingsForms :
        /\ settings' = <<[showPrices |-> Has(form, "showPrices")]>>
        /\ resp' = [op |-> "save_settings", status |-> 302, type |-> "success",
                    message |-> "Ajustes guardados (recuerda guardar los cambios)"]
        /\ UNCHANGED <<products, categories, head, staged, inflight>>

\* GET /: the page shows whether there are unsaved changes
Index ==
    /\ resp' = [op |-> "index", status |-> 200,
                has_changes |-> HasUncommittedChanges]
    /\ UNCHANGED <<products, categories, settings, head, staged, inflight>>

\* GET /product/new, /category/new, and /product/edit/<id>, /category/edit/<id>
\* of an existing record: the form is rendered
ViewForm ==
    /\ resp' = [op |-> "form", status |-> 200]
    /\ UNCHANGED <<products, categories, settings, head, staged, inflight>>

\* POST /product/new with this form; written is what resp keeps of a form
\* that was stored, besides its id
NewProduct(form, today, written) ==
    LET new_id == NormalizeId(form.id)
    IN IF AnyWithId(products, new_id)
       THEN /\ resp' = Redirect("new_product", form.id, "error",
                                "Ya existe un producto con ese ID")
            /\ UNCHANGED <<products, categories, settings, head, staged, inflight>>
       ELSE IF PriceRaises(form)
       THEN /\ resp' = [op |-> "new_product", id |-> form.id, status |-> 500,
                        price |-> form.price]
            /\ UNCHANGED <<products, categories, settings, head, staged, inflight>>
       ELSE /\ Len(products) < MaxProducts
            /\ products' = Append(products, NewProductRecord(form, today))
            /\ resp' = Redirect("new_product", form.id, "success",
                                "Producto creado (recuerda guardar los cambios)")
                          @@ written
            /\ UNCHANGED <<categories, settings, head, staged, inflight>>

\* POST /product/new
NewProductPost ==
    \E form \in ProductForms, today \in Dates :
        NewProduct(form, today, [id |-> form.id])

\* what resp keeps of a stored form: its 'id' field, or all of it
FormId(form) == [form_id |-> form.id]
WholeForm(form) == [form |-> form]
Written(whole, form) == IF whole THEN WholeForm(form) ELSE FormId(form)

\* POST /product/edit/<product_id>  (the not-found redirect is that of GET too)
EditProduct(product_id, forms, whole) ==
    LET k == FirstWithId(products, product_id)
    IN IF k = 0
       THEN /\ resp' = Redirect("edit_product", product_id, "error",
                                "Producto no encontrado")
            /\ UNCHANGED <<products, categories, settings, head, staged, inflight>>
       ELSE \E form \in forms :
            IF PriceRaises(form)
            THEN /\ resp' = [op |-> "edit_product", id |-> product_id,
                             status |-> 500, price |-> form.price]
                 /\ UNCHANGED <<products, categories, settings, head, staged, inflight>>
            ELSE /\ products' = [products EXCEPT ![k] = EditedProduct(@, form)]
                 /\ resp' = Edited("edit_product", product_id, form.id,
                                   "Producto actualizado (recuerda guardar los cambios)")
                               @@ Written(whole, form)
                 /\ UNCHANGED <<categories, settings, head, staged, inflight>>

EditProductPost ==
    \E product_id \in ProductUrlIds :
        EditProduct(product_id, ProductForms, FALSE)

\* GET /product/delete/<product_id>
DeleteProduct ==
    \E product_id \in ProductUrlIds :
        /\ products' = WithoutId(products, product_id)
        /\ resp' = Redirect("delete_product", product_id, "success",
                            "Producto eliminado (recuerda guardar los cambios)")
        /\ UNCHANGED <<categories, settings, head, staged, inflight>>

\* POST /category/new
NewCategory(form, written) ==
    LET new_id == NormalizeId(form.id)
    IN IF AnyWithId(categories, new_id)
       THEN /\ resp' = Redirect("new_category", form.id, "error",
                                "Ya existe una categoría con ese ID")
            /\ UNCHANGED <<products, categories, settings, head, staged, inflight>>
       ELSE /\ Len(categories) < MaxCategories
            /\ categories' = Append(categories, NewCategoryRecord(form))
            /\ resp' = Redirect("new_category", form.id, "success",
                                "Categoría creada (recuerda guardar los cambios)")
                          @@ written
            /\ UNCHANGED <<products, settings, head, staged, inflight>>

NewCategoryPost ==
    \E form \in CategoryForms : NewCategory(form, [id |-> form.id])

\* POST /category/edit/<category_id>  (the not-found redirect is that of GET too)
EditCategory(category_id, forms, whole) ==
    LET k == FirstWithId(categories, category_id)
    IN IF k = 0
       THEN /\ resp' = Redirect("edit_category", category_id, "error",
                                "Categoría no encontrada")
            /\ UNCHANGED <<products, categories, settings, head, staged, inflight>>
       ELSE \E form \in forms :
            /\ categories' = [categories EXCEPT ![k] = EditedCategory(@, form)]
            /\ resp' = Edited("edit_category", category_id, form.id,
                              "Categoría actualizada (recuerda guardar los cambios)")
                          @@ Written(whole, form)
            /\ UNCHANGED <<products, settings, head, staged, inflight>>

EditCategoryPost ==
    \E category_id \in CategoryUrlIds :
        EditCategory(category_id, CategoryForms, FALSE)

\* GET /category/delete/<category_id>
DeleteCategory ==
    \E category_id \in CategoryUrlIds :
        /\ categories' = WithoutId(categories, category_id)
        /\ resp' = Redirect("delete_category", category_id, "success",
                            "Categoría eliminada (recuerda guardar los cambios)")
        /\ UNCHANGED <<products, settings, head, staged, inflight>>

(***************************************************************************)
(* The catalog starts as committed (Clean), with no product, and with no   *)
(* category or the reserved category "all".                                *)
(***************************************************************************)
AllCategory == [id |-> IdAll, name |-> "Widget", icon |-> DefaultIcon,
                popular |-> FALSE]

NoRequest == [op |-> "none"]

\* app.run(host, port, debug=False): the development server hands every
\* request to a thread of its own
Threads == 1..MaxThreads

\* no thread is in the middle of a request
NoneInFlight == [t \in Threads |-> [pc |-> "idle"]]

Init ==
    /\ products = <<>>
    /\ categories \in {<<>>, <<AllCategory>>}
    /\ settings = <<[showPrices |-> TRUE]>>
    /\ head = WorkTree
    /\ staged = FALSE
    /\ resp = NoRequest
    /\ inflight = NoneInFlight

\* the routes that write a collection or the settings
Mutation ==
    \/ SaveSettingsRoute
    \/ NewProductPost
    \/ EditProductPost
    \/ DeleteProduct
    \/ NewCategoryPost
    \/ EditCategoryPost
    \/ DeleteCategory

\* the routes that only read
ReadOnly ==
    \/ ApiValidate
    \/ Index
    \/ ViewForm

(***************************************************************************)
(* Spec: the whole program, requests served one at a time, on catalogs of  *)
(* at most MaxCkProducts products and MaxCkCategories categories.          *)
(***************************************************************************)
SmallCatalog ==
    Len(products) <= MaxCkProducts /\ Len(categories) <= MaxCkCategories

Next ==
    \/ ApiCommit
    \/ ReadOnly
    \/ Mutation /\ SmallCatalog'

Spec == Init /\ [][Next]_vars

(***************************************************************************)
(* SpecStore: the same routes with no checkpoint requested, on catalogs of *)
(* at most MaxProducts products and MaxCategories categories.  No route    *)
(* but api_commit touches git, and no mutation route reads it.             *)
(***************************************************************************)
NextStore ==
    \/ ReadOnly
    \/ Mutation

SpecStore == Init /\ [][NextStore]_vars

(***************************************************************************)
(* SpecV: validation and checkpoint requests on hand-written catalogs.     *)
(* The JSON files are whatever their author wrote: any key of a record may *)
(* be absent, ids may repeat.  The catalog differs from the empty one last *)
(* committed, so a non-empty catalog is Dirty.                             *)
(***************************************************************************)
\* the records over some subset of the keys of a full record
Projections(full) == {[k \in ks |-> full[k]] : ks \in SUBSET DOMAIN full}

VProductRecords ==
    UNION {Projections([id |-> i, name |-> "Widget", price |-> pr,
                        categories |-> <<<<"c">>>>, image |-> <<"a.jpg">>]) :
              i \in {<<"a">>, <<"b">>}, pr \in {0, 1}}

VCategoryRecords ==
    {[id |-> <<"c">>, name |-> "Cat"], [id |-> <<>>, name |-> "Cat"],
     [name |-> "Cat"], [id |-> <<"c">>]}

EmptySnapshot == Snapshot(<<>>, <<>>, <<[showPrices |-> TRUE]>>)

InitV ==
    /\ products \in SeqsUpTo(VProductRecords, MaxVProducts)
    /\ categories \in SeqsUpTo(VCategoryRecords, MaxVCategories)
    /\ settings = <<[showPrices |-> TRUE]>>
    /\ head = EmptySnapshot
    /\ staged = FALSE
    /\ resp = NoRequest
    /\ inflight = NoneInFlight

NextV ==
    \/ ApiValidate
    \/ ApiCommit

SpecV == InitV /\ [][NextV]_vars

(***************************************************************************)
(* SpecForm: the create and update routes on one product and one category, *)
(* with forms that carry the optional fields: the image fields in every    *)
(* combination, the link and offers fields in every combination, each with *)
(* and without the hidden box.  The catalog starts empty or with a         *)
(* hand-written record whose optional keys hold the values the routes      *)
(* never write.                                                            *)
(***************************************************************************)
NoField == [k \in {} |-> ""]

ImageFields == {NoField, [image |-> <<"m.png">>]}

AdditionalImagesFields ==
    {NoField,
     [additional_images |-> <<" ", "\n">>],
     [additional_images |-> <<" ", "b", " ", "\n", "\n", "c">>]}

HiddenFields == {NoField, [hidden |-> "on"]}

WallapopLinkFields ==
    {NoField, [wallapopLink |-> ""], [wallapopLink |-> "https://wallapop.com/item/1"]}

\* "2,5 / x,1 / 3 / 6,x / 4,1": two lines that parse, around one with a
\* quantity that is no integer, one with a single part and one with a price
\* that is no number
MixedOfferLines ==
    <<"2", ",", "5", "\n", "x", ",", "1", "\n", "3", "\n",
      "6", ",", "x", "\n", "4", ",", "1">>

\* "02,5 / 2 ,5 / 3,1,Trio": a quantity written with a leading zero, one
\* written with a space before the comma, and a line with a label part
LabelledOfferLines ==
    <<"0", "2", ",", "5", "\n", "2", " ", ",", "5", "\n",
      "3", ",", "1", ",", "T", "r", "i", "o">>

PriceOffersFields ==
    {NoField, [priceOffers |-> <<"x">>], [priceOffers |-> <<"2", ",", "5">>],
     [priceOffers |-> MixedOfferLines], [priceOffers |-> LabelledOfferLines]}

RequiredProductFields == [id |-> <<"b">>, name |-> "Widget", price |-> <<"0">>]

FullProductForms ==
    {RequiredProductFields @@ i @@ a @@ h :
        i \in ImageFields, a \in AdditionalImagesFields, h \in HiddenFields}
    \cup
    {RequiredProductFields @@ w @@ o @@ h :
        w \in WallapopLinkFields, o \in PriceOffersFields, h \in HiddenFields}

FullCategoryForms ==
    {[id |-> <<"A", " ">>, name |-> "Widget"] @@ p @@ s @@ h :
        p \in {NoField, [popular |-> "on"]},
        s \in {NoField, [seasonal |-> "on"]}, h \in HiddenFields}

HandWrittenProduct ==
    [id |-> <<"b">>, name |-> "Widget", price |-> 0, image |-> <<"m.png">>,
     images |-> <<<<"m.png">>>>, hidden |-> FALSE, wallapopLink |-> "",
     priceOffers |-> <<>>]

HandWrittenCategory ==
    [id |-> <<"a", "_">>, name |-> "Widget", seasonal |-> FALSE, hidden |-> FALSE]

InitForm ==
    /\ products \in {<<>>, <<HandWrittenProduct>>}
    /\ categories \in {<<>>, <<HandWrittenCategory>>}
    /\ settings = <<[showPrices |-> TRUE]>>
    /\ head = WorkTree
    /\ staged = FALSE
    /\ resp = NoRequest
    /\ inflight = NoneInFlight

NextForm ==
    \/ \E form \in FullProductForms, today \in Dates :
          NewProduct(form, today, WholeForm(form))
    \/ EditProduct(<<"b">>, FullProductForms, TRUE)
    \/ \E form \in FullCategoryForms : NewCategory(form, WholeForm(form))
    \/ EditCategory(<<"a", "_">>, FullCategoryForms, TRUE)

SpecForm == InitForm /\ [][NextForm]_vars

(***************************************************************************)
(* SpecInput: creates and updates with the id and price texts a caller can *)
(* submit: an empty id, an id with a character that is no letter, digit,   *)
(* underscore or space, a price that is no number, a negative price.       *)
(***************************************************************************)
InputIdTexts == {<<>>, <<"B", " ">>, <<"b", "!">>}
InputPriceTexts == {<<"0">>, <<"x">>, <<"-", "1">>}
InputUrlIds == {<<"b", "_">>, <<"b", "!">>}

InputProductForms ==
    {[id |-> i, name |-> "Widget", price |-> p] :
        i \in InputIdTexts, p \in InputPriceTexts}

InputCategoryForms == {[id |-> i, name |-> "Widget"] : i \in InputIdTexts}

InitInput ==
    /\ products = <<>>
    /\ categories = <<>>
    /\ settings = <<[showPrices |-> TRUE]>>
    /\ head = WorkTree
    /\ staged = FALSE
    /\ resp = NoRequest
    /\ inflight = NoneInFlight

NextInput ==
    \/ \E form \in InputProductForms, today \in Dates :
          NewProduct(form, today, WholeForm(form))
    \/ \E product_id \in InputUrlIds :
          EditProduct(product_id, InputProductForms, TRUE)
    \/ \E form \in InputCategoryForms : NewCategory(form, WholeForm(form))

SpecInput == InitInput /\ [][NextInput]_vars

(***************************************************************************)
(* SpecRef: one product that may list one category, the category created,  *)
(* deleted and created again, the product repaired, with validation and    *)
(* checkpoint requests in between.                                         *)
(***************************************************************************)
ReferencedId == <<"a", "_">>

RefProductForms ==
    {[id |-> <<"b">>, name |-> "Widget", price |-> <<"0">>, categories |-> c] :
        c \in {<<>>, <<ReferencedId>>}}

RefCategoryForms == {[id |-> <<"A", " ">>, name |-> "Widget"]}

InitRef ==
    /\ products = <<>>
    /\ categories = <<>>
    /\ settings = <<[showPrices |-> TRUE]>>
    /\ head = WorkTree
    /\ staged = FALSE
    /\ resp = NoRequest
    /\ inflight = NoneInFlight

NextRef ==
    \/ \E form \in RefProductForms, today \in Dates :
          NewProduct(form, today, [id |-> form.id])
    \/ EditProduct(<<"b">>, RefProductForms, FALSE)
    \/ DeleteProduct
    \/ \E form \in RefCategoryForms : NewCategory(form, [id |-> form.id])
    \/ DeleteCategory
    \/ ApiValidate
    \/ ApiCommit

SpecRef == InitRef /\ [][NextRef]_vars

(***************************************************************************)
(* SpecDoc: the load and save helpers on whole JSON documents.  A document *)
(* is the record of its top-level keys.  The routes change what they       *)
(* loaded and save it; a request whose change is none (a delete of an      *)
(* unknown id) saves exactly what it loaded.  resp holds the document on   *)
(* disk before the request and, after it, the document that was written.   *)
(***************************************************************************)
\* json.load(f).get('products', [])
LoadProducts(document) == Get(document, "products", <<>>)

\* json.dump({'products': products}, f, ...)
SaveProducts(list) == [products |-> list]

\* json.load(f).get('categories', [])
LoadCategories(document) == Get(document, "categories", <<>>)

\* json.dump({'categories': categories}, f, ...)
SaveCategories(list) == [categories |-> list]

\* load_settings(): json.load(f), the whole object
LoadSettings(document) == document

\* save_settings(settings): json.dump(settings, f, ...)
SaveSettings(object) == object

\* a top-level key other than the collection's own
OtherKeys == {NoField, [version |-> 2]}

ProductDocRecords ==
    {HandWrittenProduct, [id |-> <<"b">>],
     NewProductRecord(RequiredProductFields, "2024-05-01")}

CategoryDocRecords == {HandWrittenCategory, AllCategory, [id |-> <<"c">>]}

ProductDocuments ==
    {o @@ c : o \in OtherKeys,
              c \in {NoField} \cup
                    {[products |-> l] :
                        l \in SeqsUpTo(ProductDocRecords, MaxDocRecords)}}

CategoryDocuments ==
    {o @@ c : o \in OtherKeys,
              c \in {NoField} \cup
                    {[categories |-> l] :
                        l \in SeqsUpTo(CategoryDocRecords, MaxDocRecords)}}

SettingsDocuments ==
    {o @@ [showPrices |-> b] : o \in OtherKeys, b \in BOOLEAN}

OnDisk(file, document) == [op |-> "on_disk", file |-> file, document |-> document]

Saved(file, before, after) ==
    [op |-> "saved_back", file |-> file, document |-> before, saved |-> after]

\* delete_product of an id no record has: save_products(load_products())
SaveLoadedProducts ==
    /\ resp.op = "on_disk" /\ resp.file = "products.json"
    /\ resp' = Saved(resp.file, resp.document,
                     SaveProducts(LoadProducts(resp.document)))
    /\ UNCHANGED <<products, categories, settings, head, staged, inflight>>

\* delete_category of an id no record has
SaveLoadedCategories ==
    /\ resp.op = "on_disk" /\ resp.file = "categories.json"
    /\ resp' = Saved(resp.file, resp.document,
                     SaveCategories(LoadCategories(resp.document)))
    /\ UNCHANGED <<products, categories, settings, head, staged, inflight>>

\* save_settings(load_settings())
SaveLoadedSettings ==
    /\ resp.op = "on_disk" /\ resp.file = "settings.json"
    /\ resp' = Saved(resp.file, resp.document,
                     SaveSettings(LoadSettings(resp.document)))
    /\ UNCHANGED <<products, categories, settings, head, staged, inflight>>

InitDoc ==
    /\ products = <<>>
    /\ categories = <<>>
    /\ settings = <<[showPrices |-> TRUE]>>
    /\ head = WorkTree
    /\ staged = FALSE
    /\ inflight = NoneInFlight
    /\ resp \in {OnDisk("products.json", d) : d \in ProductDocuments}
              \cup {OnDisk("categories.json", d) : d \in CategoryDocuments}
              \cup {OnDisk("settings.json", d) : d \in SettingsDocuments}

NextDoc ==
    \/ SaveLoadedProducts
    \/ SaveLoadedCategories
    \/ SaveLoadedSettings

SpecDoc == InitDoc /\ [][NextDoc]_vars

(***************************************************************************)
(* The server with several requests in progress.  No route takes a lock:   *)
(* a mutation is load_products(), the change on the loaded list, and       *)
(* save_products() of that list; a checkpoint is validate_database() and   *)
(* then git_commit().  Between the two steps of a request the other        *)
(* threads run.  The forms carry a price float() accepts.                  *)
(***************************************************************************)
ThreadForms ==
    {[id |-> <<"b">>, name |-> n, price |-> <<"0">>, categories |-> <<>>] :
        n \in Names}

ThreadUrlIds == {<<"b">>, UnknownUrlId}

\* the thread read products.json and holds the list it is going to save
Saving(op, target, loaded, to_save) ==
    [pc |-> "save", op |-> op, id |-> target, loaded |-> loaded,
     to_save |-> to_save]

\* new_product up to products.append(product)
ThreadNewProductLoad(t) ==
    /\ inflight[t].pc = "idle"
    /\ \E form \in ThreadForms, today \in Dates :
        IF AnyWithId(products, NormalizeId(form.id))
        THEN /\ resp' = Redirect("new_product", form.id, "error",
                                 "Ya existe un producto con ese ID")
             /\ UNCHANGED <<products, categories, settings, head, staged, inflight>>
        ELSE /\ Len(products) < MaxCkProducts
             /\ inflight' = [inflight EXCEPT ![t] =
                    Saving("new_product", form.id, products,
                           Append(products, NewProductRecord(form, today)))]
             /\ UNCHANGED <<products, categories, settings, head, staged, resp>>

\* delete_product up to the filtered list
ThreadDeleteProductLoad(t) ==
    /\ inflight[t].pc = "idle"
    /\ \E product_id \in ThreadUrlIds :
        inflight' = [inflight EXCEPT ![t] =
            Saving("delete_product", product_id, products,
                   WithoutId(products, product_id))]
    /\ UNCHANGED <<products, categories, settings, head, staged, resp>>

\* save_products(products) and the redirect that ends either route
ThreadSaveProducts(t) ==
    /\ inflight[t].pc = "save"
    /\ products' = inflight[t].to_save
    /\ resp' = Redirect(inflight[t].op, inflight[t].id, "success",
                        IF inflight[t].op = "new_product"
                        THEN "Producto creado (recuerda guardar los cambios)"
                        ELSE "Producto eliminado (recuerda guardar los cambios)")
    /\ inflight' = [inflight EXCEPT ![t] = [pc |-> "idle"]]
    /\ UNCHANGED <<categories, settings, head, staged>>

\* api_commit up to the validation gate
ThreadApiCommitValidate(t) ==
    /\ inflight[t].pc = "idle"
    /\ LET validation == ValidateDatabase(products, categories)
       IN IF Raised(validation)
          THEN /\ resp' = [op |-> "api_commit", status |-> 500, git_calls |-> 0]
               /\ UNCHANGED <<products, categories, settings, head, staged, inflight>>
          ELSE IF CommitRefused(validation)
          THEN /\ resp' = [op |-> "api_commit", status |-> 200, git_calls |-> 0,
                           body |-> [success |-> FALSE, message |-> MsgHasErrors]]
               /\ UNCHANGED <<products, categories, settings, head, staged, inflight>>
          ELSE /\ inflight' = [inflight EXCEPT ![t] = [pc |-> "git"]]
               /\ UNCHANGED <<products, categories, settings, head, staged, resp>>

\* api_commit from git_commit(message) on: git add db/ takes the files as
\* they are now
ThreadApiCommitGit(t) ==
    /\ inflight[t].pc = "git"
    /\ \E n \in DOMAIN GitOutcomes :
        LET o == GitOutcomes[n] IN
        /\ GitOutcomePossible(o, WorkTree, head)
        /\ resp' = [op |-> "api_commit", status |-> 200, git_calls |-> 1,
                    body |-> CommitResponse(GitCommitResult(o)),
                    git |-> GitCommitResult(o)]
        /\ staged' = GitStagedAfter(o, WorkTree, head, staged)
        /\ head' = GitHeadAfter(o, WorkTree, head)
    /\ inflight' = [inflight EXCEPT ![t] = [pc |-> "idle"]]
    /\ UNCHANGED <<products, categories, settings>>

InitThreads ==
    /\ products = <<>>
    /\ categories = <<>>
    /\ settings = <<[showPrices |-> TRUE]>>
    /\ head = WorkTree
    /\ staged = FALSE
    /\ resp = NoRequest
    /\ inflight = NoneInFlight

NextThreads ==
    \E t \in Threads :
        \/ ThreadNewProductLoad(t)
        \/ ThreadDeleteProductLoad(t)
        \/ ThreadSaveProducts(t)
        \/ ThreadApiCommitValidate(t)
        \/ ThreadApiCommitGit(t)

SpecThreads == InitThreads /\ [][NextThreads]_vars

(***************************************************************************)
(* Properties.                                                             *)
(***************************************************************************)
\* the step is the handling of one request of this route
Handled(op) == resp'.op = op

\* validate_database() on the catalog as persisted now
Validation == ValidateDatabase(products, categories)

ReportsErrors == ~Raised(Validation) /\ Validation.errors # <<>>
ReportsNoErrors == ~Raised(Validation) /\ Validation.errors = <<>>

FilesUnchanged ==
    /\ products' = products
    /\ categories' = categories
    /\ settings' = settings

\* C1: a checkpoint request on a catalog for which validate_database reports
\* at least one error answers success=false without calling git_commit, and
\* leaves the collection files and the last commit as they were and the
\* store Dirty.
C1_CheckpointGate ==
    [][(Handled("api_commit") /\ ReportsErrors) =>
          /\ resp'.status = 200
          /\ resp'.body.success = FALSE
          /\ resp'.git_calls = 0
          /\ FilesUnchanged
          /\ head' = head
          /\ HasUncommittedChanges
          /\ HasUncommittedChanges']_vars

C1_Witness ==
    /\ resp.op = "api_commit"
    /\ ReportsErrors
    /\ resp.git_calls = 0
    /\ resp.body.success = FALSE
    /\ HasUncommittedChanges

\* C2: a checkpoint request on a Clean store answers success=true with an
\* outcome other than "committed", and does not call git_commit.
C2_CleanCheckpointIsNoOp ==
    [][(Handled("api_commit") /\ ~HasUncommittedChanges) =>
          /\ resp'.status = 200
          /\ resp'.body.success = TRUE
          /\ resp'.body.message # MsgCommitted
          /\ resp'.git_calls = 0]_vars

\* C3: a checkpoint request on a Dirty store whose catalog validates with no
\* error calls git_commit exactly once; when that commit succeeds the answer
\* is success=true and the store is Clean; and a Clean store stays Clean as
\* long as no request changes a file.
C3_DirtyValidCheckpointCommits ==
    [][/\ (Handled("api_commit") /\ HasUncommittedChanges /\ ReportsNoErrors) =>
             /\ resp'.git_calls = 1
             /\ resp'.git.success =>
                   (resp'.body.success /\ ~HasUncommittedChanges')
       /\ (~HasUncommittedChanges /\ FilesUnchanged) => ~HasUncommittedChanges'
      ]_vars

C3_Witness ==
    /\ resp.op = "api_commit"
    /\ resp.git_calls = 1
    /\ resp.body.success
    /\ products # <<>>
    /\ head = WorkTree
    /\ ~HasUncommittedChanges

\* C4: when git_commit fails during a checkpoint the answer is success=false
\* with exactly git_commit's message, and a Dirty store remains Dirty.
C4_FailedCommitStaysDirty ==
    [][(Handled("api_commit") /\ resp'.git_calls = 1 /\ ~resp'.git.success) =>
          /\ resp'.body.success = FALSE
          /\ resp'.body.message = resp'.git.message
          /\ HasUncommittedChanges => HasUncommittedChanges']_vars

\* What does hold of a failed git_commit: the answer is success=false with
\* exactly git_commit's message, the collection files and the last commit
\* are unchanged, and the store remains Dirty whenever the files differ from
\* the last commit.
FailedCommitKeepsPendingChanges ==
    [][(Handled("api_commit") /\ resp'.git_calls = 1 /\ ~resp'.git.success) =>
          /\ resp'.body.success = FALSE
          /\ resp'.body.message = resp'.git.message
          /\ FilesUnchanged
          /\ head' = head
          /\ WorkTree # head => HasUncommittedChanges']_vars

FailedCommitWithPendingChanges ==
    /\ resp.op = "api_commit"
    /\ resp.git_calls = 1
    /\ ~resp.body.success
    /\ resp.body.message = ""
    /\ WorkTree # head
    /\ HasUncommittedChanges

\* the id a create request asks for: the text lowercased, its spaces
\* replaced by underscores
Normalized(text) ==
    [i \in DOMAIN text |-> IF text[i] = " " THEN "_" ELSE LowerChar(text[i])]

IdsOf(records) == [i \in DOMAIN records |-> records[i].id]

HasId(records, an_id) == \E i \in DOMAIN records : records[i].id = an_id

\* C5: a create request, of a product or of a category, whose normalized id
\* is the id of a record of the collection is answered with the duplicate-id
\* error, and no file changes.
C5_DuplicateCreateRejected ==
    [][/\ (Handled("new_product") /\ HasId(products, Normalized(resp'.id))) =>
             /\ resp'.status = 302
             /\ resp'.type = "error"
             /\ resp'.message = "Ya existe un producto con ese ID"
             /\ FilesUnchanged
       /\ (Handled("new_category") /\ HasId(categories, Normalized(resp'.id))) =>
             /\ resp'.status = 302
             /\ resp'.type = "error"
             /\ resp'.message = "Ya existe una categoría con ese ID"
             /\ FilesUnchanged
      ]_vars

C5_Witness ==
    /\ resp.op = "new_product"
    /\ resp.status = 302
    /\ resp.type = "error"
    /\ resp.id = <<"A", " ">>
    /\ HasId(products, <<"a", "_">>)
    /\ Len(products) = 2

\* C6: an update request on an existing product or category, whatever the
\* 'id' field of its form, leaves the id of the targeted record and the list
\* of the ids of the collection as they were.
C6_UpdateKeepsIds ==
    [][/\ Handled("edit_product") =>
             /\ IdsOf(products') = IdsOf(products)
             /\ categories' = categories
             /\ (resp'.status = 302 /\ resp'.type = "success") =>
                   products'[FirstWithId(products, resp'.id)].id = resp'.id
       /\ Handled("edit_category") =>
             /\ IdsOf(categories') = IdsOf(categories)
             /\ products' = products
             /\ (resp'.status = 302 /\ resp'.type = "success") =>
                   categories'[FirstWithId(categories, resp'.id)].id = resp'.id
      ]_vars

C6_Witness ==
    /\ resp.op = "edit_product"
    /\ resp.status = 302
    /\ resp.type = "success"
    /\ Normalized(resp.form_id) # resp.id
    /\ HasId(products, resp.id)
    /\ ~HasId(products, Normalized(resp.form_id))
    /\ products[FirstWithId(products, resp.id)].name = ""

\* C7: once the category collection holds a record with id "all" it holds
\* one after every request, a delete-category request for "all" included.
C7_AllCategoryProtected ==
    [][HasId(categories, IdAll) => HasId(categories', IdAll)]_vars

\* C8: a delete request, of a product or of a category, reports no error;
\* for an id no record has it leaves the collection as it was; afterwards no
\* record has the id, and the same delete applied again leaves the
\* collection as the first left it.
C8_DeleteIdempotent ==
    [][/\ Handled("delete_product") =>
             /\ resp'.status = 302
             /\ resp'.type = "success"
             /\ ~HasId(products, resp'.id) => products' = products
             /\ ~HasId(products', resp'.id)
             /\ WithoutId(products', resp'.id) = products'
             /\ categories' = categories
       /\ Handled("delete_category") =>
             /\ resp'.status = 302
             /\ resp'.type = "success"
             /\ ~HasId(categories, resp'.id) => categories' = categories
             /\ ~HasId(categories', resp'.id)
             /\ WithoutId(categories', resp'.id) = categories'
             /\ products' = products
      ]_vars

C8_Witness ==
    /\ resp.op = "delete_product"
    /\ resp.id = UnknownUrlId
    /\ Len(products) = 2
    /\ products[1].id # products[2].id

\* the structural defects of a catalog
MissingId(r) == ~Has(r, "id") \/ r.id = <<>>

MissingName(r) == ~Has(r, "name") \/ r.name = ""

DuplicateId(records) ==
    \E i, j \in DOMAIN records :
        i < j /\ ~MissingId(records[i]) /\ ~MissingId(records[j])
              /\ records[i].id = records[j].id

DanglingReference(p, cs) ==
    /\ Has(p, "categories")
    /\ \E n \in DOMAIN p.categories :
          ~\E k \in DOMAIN cs : Has(cs[k], "id") /\ cs[k].id = p.categories[n]

HasDefect(ps, cs) ==
    \/ DuplicateId(ps)
    \/ DuplicateId(cs)
    \/ \E i \in DOMAIN ps :
          \/ MissingId(ps[i])
          \/ MissingName(ps[i])
          \/ ~Has(ps[i], "price")
          \/ DanglingReference(ps[i], cs)
    \/ \E k \in DOMAIN cs : MissingId(cs[k]) \/ MissingName(cs[k])

Verdict(report) ==
    /\ report.valid <=> report.errors = <<>>
    /\ report.errors # <<>> <=> HasDefect(products, categories)

\* C9: for every catalog a validation request returns a report, whose valid
\* is true exactly when its error list is empty, and whose error list is
\* non-empty exactly when some record has a structural defect; warnings do
\* not count.
C9_ValidatorVerdict ==
    resp.op = "api_validate" => (~Raised(resp.report) /\ Verdict(resp.report))

\* The same for the catalogs on which validate_database returns.
VerdictWhenReturned ==
    (resp.op = "api_validate" /\ ~Raised(resp.report)) => Verdict(resp.report)

ValidReportWithWarnings ==
    /\ resp.op = "api_validate"
    /\ ~Raised(resp.report)
    /\ resp.report.valid
    /\ Len(resp.report.warnings) = 2

\* the label validate_database puts in the missing-price error of p
PriceLabel(p) == IF Has(p, "id") THEN p.id ELSE <<"?">>

Count(seq, Test(_)) == Len(SelectSeq(seq, Test))

\* the missing-price errors a validation request reported with this label:
\* none when it returned no report
PriceErrorsReported(report, label) ==
    IF Raised(report) THEN 0
    ELSE Count(report.errors,
               LAMBDA e : e.kind = "product_without_price" /\ e.id = label)

\* C10: a validation request reports one missing-price error for each
\* product that has no price key, and none for a product whose price is 0.
C10_PriceZeroNotMissing ==
    resp.op = "api_validate" =>
        \A label \in {PriceLabel(products[i]) : i \in DOMAIN products} :
            PriceErrorsReported(resp.report, label)
              = Count(products,
                      LAMBDA p : PriceLabel(p) = label /\ ~Has(p, "price"))

\* The same for the catalogs on which validate_database returns.
PriceErrorsWhenReturned ==
    (resp.op = "api_validate" /\ ~Raised(resp.report)) => C10_PriceZeroNotMissing

PriceZeroReport ==
    /\ resp.op = "api_validate"
    /\ ~Raised(resp.report)
    /\ \E i \in DOMAIN products : Has(products[i], "price") /\ products[i].price = 0
    /\ \E i \in DOMAIN products : ~Has(products[i], "price")
    /\ Len(resp.report.errors) = 1

\* the errors of this kind in what a validation request reported: none when
\* it returned no report
Reported(report, Test(_)) ==
    IF Raised(report) THEN 0 ELSE Count(report.errors, Test)

\* C11: a validation request on a catalog in which a product or a category
\* has no id returns a report with valid=false, holding one without-id error
\* for each such product and one for each such category.
C11_MissingIdReported ==
    resp.op = "api_validate" =>
        /\ Reported(resp.report, LAMBDA e : e.kind = "product_without_id")
             = Count(products, MissingId)
        /\ Reported(resp.report, LAMBDA e : e.kind = "category_without_id")
             = Count(categories, MissingId)
        /\ (Count(products, MissingId) + Count(categories, MissingId) > 0) =>
               (~Raised(resp.report) /\ ~resp.report.valid)

\* The same for the catalogs on which validate_database returns.
MissingIdReportedWhenReturned ==
    (resp.op = "api_validate" /\ ~Raised(resp.report)) => C11_MissingIdReported

MissingIdsReport ==
    /\ resp.op = "api_validate"
    /\ ~Raised(resp.report)
    /\ Count(products, MissingId) = 1
    /\ Count(categories, MissingId) = 1

\* the positions of the records whose id an earlier record has
LaterOccurrences(records) ==
    {i \in DOMAIN records :
        /\ ~MissingId(records[i])
        /\ \E j \in 1..(i - 1) :
              ~MissingId(records[j]) /\ records[j].id = records[i].id}

\* the (product, entry) positions of the category references that are the id
\* of no category
DanglingEntries(ps, cs) ==
    {<<i, n>> \in (DOMAIN ps) \X (1..MaxCatRefs) :
        /\ Has(ps[i], "categories")
        /\ n \in DOMAIN ps[i].categories
        /\ ~\E k \in DOMAIN cs :
              Has(cs[k], "id") /\ cs[k].id = ps[i].categories[n]}

\* the number of structural defects of a catalog
Defects(ps, cs) ==
    Count(ps, MissingId) + Cardinality(LaterOccurrences(ps))
      + Count(ps, MissingName) + Count(ps, LAMBDA p : ~Has(p, "price"))
      + Cardinality(DanglingEntries(ps, cs))
      + Count(cs, MissingId) + Cardinality(LaterOccurrences(cs))
      + Count(cs, MissingName)

PresentIds(records) ==
    {records[i].id : i \in {k \in DOMAIN records : ~MissingId(records[k])}}

\* C12: a validation request reports, in each collection and for every id,
\* one duplicate-id error for each occurrence of the id after the first,
\* and, on a catalog with several defects, one error per defect.
C12_AllIssuesCollected ==
    resp.op = "api_validate" =>
        /\ \A id \in PresentIds(products) :
              Reported(resp.report,
                       LAMBDA e : e.kind = "duplicate_product_id" /\ e.id = id)
                = Count(products, LAMBDA p : ~MissingId(p) /\ p.id = id) - 1
        /\ \A id \in PresentIds(categories) :
              Reported(resp.report,
                       LAMBDA e : e.kind = "duplicate_category_id" /\ e.id = id)
                = Count(categories, LAMBDA c : ~MissingId(c) /\ c.id = id) - 1
        /\ Defects(products, categories) >= 2 =>
              Reported(resp.report, LAMBDA e : TRUE)
                = Defects(products, categories)

\* The same for the catalogs on which validate_database returns.
AllIssuesCollectedWhenReturned ==
    (resp.op = "api_validate" /\ ~Raised(resp.report)) => C12_AllIssuesCollected

SeveralIssuesReport ==
    /\ resp.op = "api_validate"
    /\ ~Raised(resp.report)
    /\ Len(products) = 2
    /\ LaterOccurrences(products) = {2}
    /\ MissingName(products[2])
    /\ ~Has(products[2], "price")
    /\ LaterOccurrences(categories) = {2}
    /\ Len(resp.report.errors) >= 5

NameLabel(p) == IF Has(p, "name") THEN p.name ELSE "?"

\* C13: a validation request reports, for every product and every entry of
\* its categories list, an error naming the entry exactly when the entry is
\* the id of no category of the collection, wherever that category stands.
C13_DanglingReferences ==
    resp.op = "api_validate" =>
        \A i \in DOMAIN products, c \in {<<"c">>} :
            Reported(resp.report,
                     LAMBDA e : /\ e.kind = "nonexistent_category"
                                /\ e.name = NameLabel(products[i])
                                /\ e.category = c)
              = Cardinality({d \in DanglingEntries(products, categories) :
                               /\ NameLabel(products[d[1]]) = NameLabel(products[i])
                               /\ products[d[1]].categories[d[2]] = c})

\* The same for the catalogs on which validate_database returns.
DanglingReferencesWhenReturned ==
    (resp.op = "api_validate" /\ ~Raised(resp.report)) => C13_DanglingReferences

\* products = [{id: a, name: Widget, price: 0, categories: [c]}] with no
\* category: one error, which names c, and one warning, the missing image
DanglingExampleReport ==
    /\ resp.op = "api_validate"
    /\ products = <<[id |-> <<"a">>, name |-> "Widget", price |-> 0,
                     categories |-> <<<<"c">>>>]>>
    /\ categories = <<>>
    /\ resp.report.errors = <<[kind |-> "nonexistent_category",
                               name |-> "Widget", category |-> <<"c">>]>>
    /\ resp.report.warnings = <<[kind |-> "product_without_image",
                                 name |-> "Widget"]>>

\* a category that follows the product in no way changes the lookup: the
\* reference is found although the category is the last record
ReferenceFoundReport ==
    /\ resp.op = "api_validate"
    /\ ~Raised(resp.report)
    /\ Len(categories) = 2
    /\ Has(categories[2], "id") /\ categories[2].id = <<"c">>
    /\ categories[1].id # <<"c">>
    /\ Len(products) = 1
    /\ Has(products[1], "categories")
    /\ Count(resp.report.errors, LAMBDA e : e.kind = "nonexistent_category") = 0

Distinct(seq) == \A i, j \in DOMAIN seq : i # j => seq[i] # seq[j]

\* C16: from collections with distinct ids, after every sequence of create,
\* update and delete requests, failed ones included, the ids of the products
\* are pairwise distinct and so are the ids of the categories.
C16_IdsStayUnique ==
    Distinct(IdsOf(products)) /\ Distinct(IdsOf(categories))

C16_Witness ==
    /\ resp.op = "new_product"
    /\ resp.status = 302
    /\ resp.type = "error"
    /\ Len(products) = 2
    /\ Len(categories) = 2

MutationOps ==
    {"save_settings", "new_product", "edit_product", "delete_product",
     "new_category", "edit_category", "delete_category"}

\* the step is a create, update, delete or settings-save request that
\* succeeded
MutationSucceeded ==
    resp'.op \in MutationOps /\ resp'.status = 302 /\ resp'.type = "success"

\* the step is a checkpoint request that committed
CheckpointSucceeded ==
    /\ resp'.op = "api_commit"
    /\ resp'.status = 200
    /\ resp'.git_calls = 1
    /\ resp'.body.success

ProductWritten ==
    /\ resp'.op \in {"new_product", "edit_product"}
    /\ resp'.status = 302
    /\ resp'.type = "success"

CategoryWritten ==
    /\ resp'.op \in {"new_category", "edit_category"}
    /\ resp'.status = 302
    /\ resp'.type = "success"

\* the record the step wrote: the one appended, or the one the URL names
WrittenRecord(records, op) ==
    IF resp'.op = op THEN records[Len(records)]
    ELSE records[FirstWithId(records, resp'.id)]

\* the lines of a text, trimmed, without the blank ones
TrimmedLines(text) ==
    LET lines == Split(text, "\n")
        trimmed == [i \in DOMAIN lines |-> Strip(lines[i])]
    IN SelectSeq(trimmed, LAMBDA l : l # <<>>)

ImageShape(r, form) ==
    LET m == IF Has(form, "image") THEN form.image
             ELSE <<"resources/LOGO_SIN_FONDO.png">>
        t == IF Has(form, "additional_images") THEN form.additional_images
             ELSE <<>>
    IN /\ r.image = m
       /\ IF TrimmedLines(t) # <<>>
          THEN Has(r, "images") /\ r.images = <<m>> \o TrimmedLines(t)
          ELSE ~Has(r, "images")
       /\ Has(r, "images") => (Len(r.images) >= 2 /\ r.images[1] = r.image)

\* C14: the product a create or update request stores has for image the main
\* image of the form and, if the additional-images text has a non-blank
\* line, for images the main image followed by the trimmed non-blank lines
\* in order, and no images key otherwise.
C14_ImageListShape ==
    [][ProductWritten =>
          ImageShape(WrittenRecord(products', "new_product"), resp'.form)]_vars

C14_Witness ==
    /\ resp.op = "edit_product"
    /\ resp.status = 302
    /\ resp.type = "success"
    /\ Has(resp.form, "additional_images")
    /\ ~Has(resp.form, "image")
    /\ Has(products[1], "images")
    /\ products[1].images
         = <<<<"resources/LOGO_SIN_FONDO.png">>, <<"b">>, <<"c">>>>

\* the line has two comma-separated parts or more, the first an integer
\* and the second a number
LineParses(line) ==
    LET parts == Split(Strip(line), ",")
    IN Len(parts) >= 2 /\ ParseInt(parts[1]).ok /\ ParseFloat(parts[2]).ok

\* the lines of the submitted priceOffers text that parse, in input order
ParsingLines(form) ==
    IF Has(form, "priceOffers")
    THEN SelectSeq(Split(Strip(form.priceOffers), "\n"), LineParses)
    ELSE <<>>

OptionalProductKeys(r, form) ==
    /\ Has(r, "hidden") <=> Has(form, "hidden")
    /\ Has(r, "hidden") => r.hidden = TRUE
    /\ Has(r, "wallapopLink") <=>
          (Has(form, "wallapopLink") /\ form.wallapopLink # "")
    /\ Has(r, "wallapopLink") => r.wallapopLink # ""
    /\ Has(r, "priceOffers") <=> ParsingLines(form) # <<>>
    /\ Has(r, "priceOffers") => r.priceOffers # <<>>
    /\ Has(r, "images") <=>
          (Has(form, "additional_images")
             /\ TrimmedLines(form.additional_images) # <<>>)
    /\ Has(r, "images") => Len(r.images) >= 2

OptionalCategoryKeys(r, form) ==
    /\ Has(r, "seasonal") <=> Has(form, "seasonal")
    /\ Has(r, "seasonal") => r.seasonal = TRUE
    /\ Has(r, "hidden") <=> Has(form, "hidden")
    /\ Has(r, "hidden") => r.hidden = TRUE

\* C15: the record a create or update request stores has each optional key
\* exactly when the form sets it, and never with the value false, empty
\* string, empty list or one-entry list, whatever the record held before.
C15_PresenceEncodesValue ==
    [][/\ ProductWritten =>
             OptionalProductKeys(WrittenRecord(products', "new_product"),
                                 resp'.form)
       /\ CategoryWritten =>
             OptionalCategoryKeys(WrittenRecord(categories', "new_category"),
                                  resp'.form)]_vars

\* the hand-written product (it has no createdAt) after an update whose form
\* sets none of the optional fields
C15_Witness ==
    /\ resp.op = "edit_product"
    /\ resp.status = 302
    /\ resp.type = "success"
    /\ DOMAIN resp.form = {"id", "name", "price"}
    /\ ~Has(products[1], "createdAt")
    /\ DOMAIN products[1] \cap {"hidden", "wallapopLink", "priceOffers", "images"}
         = {}

\* the thread is at its save_products() call
AtSave(t) == inflight[t].pc = "save" /\ inflight'[t].pc = "idle"

\* every record of the first list is in the second
AllKept(before, after) ==
    \A i \in DOMAIN before : \E j \in DOMAIN after : after[j] = before[i]

\* C17: the load-transform-save cycles of two mutations on the same
\* collection never interleave: when a request saves, the file is still
\* what that request loaded; the save of a create loses no record that is
\* in the file, and finds no record with its id there (two creates with
\* the same id never both succeed).
C17_MutationsSerialized ==
    [][\A t \in Threads : AtSave(t) =>
          /\ products = inflight[t].loaded
          /\ inflight[t].op = "new_product" =>
                /\ AllKept(products, products')
                /\ ~AnyWithId(products, NormalizeId(inflight[t].id))]_vars

\* a checkpoint has validated and has not finished git_commit
InCheckpoint(t) == inflight[t].pc = "git"

\* C18: no mutation is saved while a checkpoint is between its validation
\* and the end of its commit, and every snapshot that becomes HEAD is one
\* the validator reports zero errors for.
C18_CheckpointAtomic ==
    [][/\ (\E t \in Threads : InCheckpoint(t)) => FilesUnchanged
       /\ head' # head =>
             LET committed == ValidateDatabase(head'.products, head'.categories)
             IN ~Raised(committed) /\ committed.errors = <<>>]_vars

\* C19: at most one checkpoint is between the start of its validation and
\* the end of its commit.
C19_CheckpointNotReentrant ==
    Cardinality({t \in Threads : InCheckpoint(t)}) <= 1

\* the request is a product create or update whose price text float()
\* does not accept (the response of such a request notes the text)
InvalidPriceRequest ==
    /\ resp'.op \in {"new_product", "edit_product"}
    /\ Has(resp', "price")
    /\ ~ParseFloat(resp'.price).ok

\* the redirect that reports a failure to the caller
FailureResult(r) == r.status = 302 /\ r.type = "error"

\* C21: a product create or update whose price text is not a number gets a
\* failure result (no exception escapes the route) and leaves products.json
\* as it was.
C21_InvalidPriceRejected ==
    [][InvalidPriceRequest =>
          FailureResult(resp') /\ products' = products]_vars

\* what does hold of such a request: nothing is written
InvalidPriceKeepsFiles == [][InvalidPriceRequest => FilesUnchanged]_vars

InvalidPriceSubmitted ==
    /\ resp.op \in {"new_product", "edit_product"}
    /\ resp.status = 500
    /\ resp.price = <<"x">>

\* the request is an update of this route whose URL id no record of the
\* collection has
UnknownIdUpdate(op, records) ==
    /\ resp'.op = op
    /\ \A i \in DOMAIN records : records[i].id # resp'.id

\* C22: an update of a product or category id that no record has fails
\* with 'not found', creates no record and leaves the files as they were.
C22_UnknownIdUpdateRejected ==
    [][/\ UnknownIdUpdate("edit_product", products) =>
             /\ FailureResult(resp')
             /\ resp'.message = "Producto no encontrado"
             /\ FilesUnchanged
       /\ UnknownIdUpdate("edit_category", categories) =>
             /\ FailureResult(resp')
             /\ resp'.message = "Categoría no encontrada"
             /\ FilesUnchanged]_vars

\* an update of an unknown id was refused on a collection that has records
C22_Witness ==
    /\ resp.op = "edit_product"
    /\ resp.status = 302
    /\ resp.type = "error"
    /\ products # <<>>
    /\ \A i \in DOMAIN products : products[i].id # resp.id

\* the stored offers are those of these lines, one for one
OffersOf(r, lines) ==
    IF lines = <<>> THEN ~Has(r, "priceOffers")
    ELSE /\ Has(r, "priceOffers")
         /\ Len(r.priceOffers) = Len(lines)
         /\ \A i \in DOMAIN lines :
               LET parts == Split(Strip(lines[i]), ",")
               IN /\ r.priceOffers[i].quantity = ParseInt(parts[1]).value
                  /\ r.priceOffers[i].price = ParseFloat(parts[2]).value

\* C23: after a product create or update that was stored, the priceOffers
\* of the written record are exactly the submitted lines that parse, in
\* input order; the other lines are dropped; when no line parses the
\* record has no priceOffers key (an earlier one is removed by an update).
C23_LenientOfferParsing ==
    [][ProductWritten =>
          OffersOf(WrittenRecord(products', "new_product"),
                   ParsingLines(resp'.form))]_vars

\* the five-line text was stored as its two parsing lines
C23_Witness ==
    /\ resp.op \in {"new_product", "edit_product"}
    /\ resp.status = 302
    /\ resp.type = "success"
    /\ Has(resp.form, "priceOffers")
    /\ resp.form.priceOffers = MixedOfferLines
    /\ Has(products[1], "priceOffers")
    /\ Len(products[1].priceOffers) = 2
    /\ products[1].priceOffers[2].quantity = 4

\* an update with a text of which no line parses removed the stored offers
OffersRemovedByUpdate ==
    /\ resp.op = "edit_product"
    /\ resp.status = 302
    /\ resp.type = "success"
    /\ Has(resp.form, "priceOffers")
    /\ resp.form.priceOffers = <<"x">>
    /\ ~Has(products[1], "priceOffers")

\* C24: for every persisted document of products, categories and
\* settings, saving exactly what was loaded from it gives a document with
\* the same content: every record with every field, and every other key
\* of the document.
C24_StoreRoundTrip ==
    resp.op = "saved_back" =>
        \A k \in DOMAIN resp.document :
            Has(resp.saved, k) /\ resp.saved[k] = resp.document[k]

\* what does hold: the records come back as they were, and so does the
\* whole settings object
RecordsRoundTrip ==
    resp.op = "saved_back" =>
        /\ resp.file = "products.json" =>
              LoadProducts(resp.saved) = LoadProducts(resp.document)
        /\ resp.file = "categories.json" =>
              LoadCategories(resp.saved) = LoadCategories(resp.document)
        /\ resp.file = "settings.json" => resp.saved = resp.document

RecordsSavedBack ==
    /\ resp.op = "saved_back"
    /\ resp.file = "products.json"
    /\ Has(resp.document, "version")
    /\ Len(LoadProducts(resp.document)) = MaxDocRecords

\* the step writes no file and leaves git, hence the Clean/Dirty status, alone
NoSideEffect ==
    /\ FilesUnchanged
    /\ head' = head
    /\ staged' = staged
    /\ HasUncommittedChanges' = HasUncommittedChanges

\* the counts of the report are the raw sizes of the two collections
RawCounts(report) ==
    /\ report.product_count = Len(products)
    /\ report.category_count = Len(categories)

\* C25: a validate request writes no file and does not change the
\* Clean/Dirty status; it returns a report whose product_count and
\* category_count are the raw sizes of the collections, valid or not; and
\* a second validate request on the same catalog returns the same report.
C25_ValidationPure ==
    [][Handled("api_validate") =>
          /\ NoSideEffect
          /\ ~Raised(resp'.report)
          /\ RawCounts(resp'.report)
          /\ resp.op = "api_validate" => resp'.report = resp.report]_vars

\* what does hold: no side effect ever, and the counts and the repeated
\* report whenever the validator returns one
ValidationPureWhenReturned ==
    [][Handled("api_validate") =>
          /\ NoSideEffect
          /\ ~Raised(resp'.report) => RawCounts(resp'.report)
          /\ resp.op = "api_validate" => resp'.report = resp.report
          /\ resp'.report = ValidateDatabase(products', categories')]_vars

InvalidCatalogCounted ==
    /\ resp.op = "api_validate"
    /\ ~Raised(resp.report)
    /\ ~resp.report.valid
    /\ resp.report.product_count = MaxVProducts
    /\ resp.report.category_count = MaxVCategories

\* C26: the category record a create or update stores has the key popular
\* exactly when the form sets it, and then with the value true: popular is
\* never stored as false, as for seasonal and hidden.
C26_PopularPresenceEncoded ==
    [][CategoryWritten =>
          LET r == WrittenRecord(categories', "new_category")
          IN /\ Has(r, "popular") <=> Has(resp'.form, "popular")
             /\ Has(r, "popular") => r.popular = TRUE]_vars

\* what does hold: popular is always stored, as whether the box was checked
PopularStoredAsBoolean ==
    [][CategoryWritten =>
          LET r == WrittenRecord(categories', "new_category")
          IN Has(r, "popular") /\ r.popular = Has(resp'.form, "popular")]_vars

PopularStoredFalse ==
    /\ resp.op \in {"new_category", "edit_category"}
    /\ resp.status = 302
    /\ resp.type = "success"
    /\ ~Has(resp.form, "popular")
    /\ categories[1].popular = FALSE

\* some product lists a category id that no category has
Dangling(ps, cs) == \E i \in DOMAIN ps : DanglingReference(ps[i], cs)

\* the validator reports an error for a category that does not exist
ReportsDangling ==
    /\ ReportsErrors
    /\ \E n \in DOMAIN Validation.errors :
          Validation.errors[n].kind = "nonexistent_category"

\* C27: a delete of a category succeeds and leaves products.json as it was,
\* also when a product lists the category; while a product lists a
\* category that does not exist the validator reports it as an error and
\* every checkpoint request is refused: git_commit is not called and HEAD
\* stays.
C27_DeleteCategoryNoCascade ==
    /\ [][Handled("delete_category") =>
             /\ resp'.status = 302 /\ resp'.type = "success"
             /\ products' = products
             /\ ~HasId(categories', resp'.id)]_vars
    /\ [](Dangling(products, categories) => ReportsDangling)
    /\ [][(Handled("api_commit") /\ Dangling(products, categories)) =>
             /\ resp'.git_calls = 0
             /\ resp'.body.success = FALSE
             /\ head' = head]_vars

\* a checkpoint was refused after the category that the committed product
\* lists was deleted
C27_Witness ==
    /\ resp.op = "api_commit"
    /\ resp.git_calls = 0
    /\ HasId(head.categories, ReferencedId)
    /\ head.products # <<>>
    /\ products = head.products
    /\ products[1].categories = <<ReferencedId>>
    /\ categories = <<>>

\* every category id a product lists is the id of a category
ReferencesResolve == ~Dangling(products, categories)

\* C28: from a catalog whose references resolve, after every sequence of
\* create, update and delete requests on products and categories every
\* category id a product lists is the id of a category.
C28_ReferencesAlwaysResolve == ReferencesResolve

\* the step stored a product that lists a category id no category has
StoredDanglingProduct ==
    /\ ProductWritten
    /\ DanglingReference(WrittenRecord(products', "new_product"), categories')

\* C28 as the routes have it: references that resolve stop resolving only
\* by a delete of a category, or by a create or update of a product that
\* submits a category id no category has; every other request keeps them
\* resolving.
C28_ReferencesBrokenOnlyBy ==
    [][(ReferencesResolve /\ ~ReferencesResolve') =>
          (Handled("delete_category") \/ StoredDanglingProduct)]_vars

\* after a delete request for another category id, the category a product
\* lists is still there
C28_Witness ==
    /\ resp.op = "delete_category"
    /\ resp.id # IdAll
    /\ HasId(head.categories, IdAll)
    /\ Len(categories) = 1
    /\ products # <<>>
    /\ products[1].categories = <<IdAll>>
    /\ ReferencesResolve

\* the characters of [a-z0-9_]
IdChars ==
    {"a", "b", "c", "d", "e", "f", "g", "h", "i", "j", "k", "l", "m", "n",
     "o", "p", "q", "r", "s", "t", "u", "v", "w", "x", "y", "z", "_"}
        \cup Digits

WellFormedId(id) == id # <<>> /\ \A i \in DOMAIN id : id[i] \in IdChars

\* the step is a create of this route that stored a record
Created(op) == resp'.op = op /\ resp'.status = 302 /\ resp'.type = "success"

\* C29: the id a successful product or category create stores is
\* non-empty, lowercase and made of characters of [a-z0-9_] only, whatever
\* id text was submitted.
C29_StoredIdWellFormed ==
    [][/\ Created("new_product") =>
             WellFormedId(products'[Len(products')].id)
       /\ Created("new_category") =>
             WellFormedId(categories'[Len(categories')].id)]_vars

\* what does hold: the stored id is the submitted text with its letters
\* lowered and its spaces replaced by underscores, nothing else
StoredIdIsNormalizedText ==
    [][/\ Created("new_product") =>
             LET id == products'[Len(products')].id
             IN /\ Len(id) = Len(resp'.form.id)
                /\ \A i \in DOMAIN id :
                      /\ id[i] \notin {" ", "A", "B", "L"}
                      /\ resp'.form.id[i] \in IdChars => id[i] = resp'.form.id[i]
       /\ Created("new_category") =>
             LET id == categories'[Len(categories')].id
             IN /\ Len(id) = Len(resp'.form.id)
                /\ \A i \in DOMAIN id :
                      /\ id[i] \notin {" ", "A", "B", "L"}
                      /\ resp'.form.id[i] \in IdChars => id[i] = resp'.form.id[i]]_vars

EmptyIdStored ==
    /\ resp.op = "new_category"
    /\ resp.status = 302
    /\ resp.type = "success"
    /\ categories[Len(categories)].id = <<>>

\* C30: the price of the product a successful create or update stores is a
\* number greater than or equal to 0, whatever price text was submitted.
C30_StoredPriceNonNegative ==
    [][ProductWritten =>
          WrittenRecord(products', "new_product").price >= 0]_vars

\* what does hold: the stored price is the number the submitted text
\* denotes, sign included
StoredPriceIsSubmittedNumber ==
    [][ProductWritten =>
          /\ ParseFloat(resp'.form.price).ok
          /\ WrittenRecord(products', "new_product").price
                = ParseFloat(resp'.form.price).value]_vars

NegativePriceStored ==
    /\ resp.op = "edit_product"
    /\ resp.status = 302
    /\ resp.type = "success"
    /\ \E i \in DOMAIN products : products[i].price < 0

(***************************************************************************)
(* The checkpoint when git may not answer.  git_commit() calls             *)
(* subprocess.run() twice and passes no timeout= to either call, so the    *)
(* request thread waits in the call until the child exits.  A git that     *)
(* never exits (a hook or a signing prompt that waits for input, a         *)
(* stopped child) leaves the thread in the call.                           *)
(***************************************************************************)
\* the git subprocess called by git_commit(): which call does not return
GitCalls == {"add", "commit"}

\* git_commit(message) whose child does not exit: git add db/ has written
\* the index when it is git commit that waits; nothing is returned
ThreadGitWaits(t) ==
    /\ inflight[t].pc = "git"
    /\ \E call \in GitCalls :
        /\ inflight' = [inflight EXCEPT ![t] = [pc |-> "wait", call |-> call]]
        /\ staged' = IF call = "commit" THEN WorkTree # head ELSE staged
    /\ UNCHANGED <<products, categories, settings, head, resp>>

NextLive ==
    \E t \in Threads :
        \/ ThreadNewProductLoad(t)
        \/ ThreadDeleteProductLoad(t)
        \/ ThreadSaveProducts(t)
        \/ ThreadApiCommitValidate(t)
        \/ ThreadApiCommitGit(t)
        \/ ThreadGitWaits(t)

\* a request thread that can take its next step takes it: the server runs
\* each request on a thread of its own and the system schedules them all
ThreadsScheduled ==
    \A t \in Threads :
        /\ WF_vars(ThreadSaveProducts(t))
        /\ WF_vars(ThreadApiCommitGit(t) \/ ThreadGitWaits(t))

SpecLive == InitThreads /\ [][NextLive]_vars /\ ThreadsScheduled

\* the thread is inside git_commit(), or inside one of its subprocess calls
InGitCommit(t) == inflight[t].pc \in {"git", "wait"}

\* C31: every checkpoint request that passed validation and entered
\* git_commit() eventually returns its success/failure result, also when
\* the git subprocess does not answer (the request then fails after a
\* timeout).
C31_CheckpointCompletes ==
    \A t \in Threads : InGitCommit(t) ~> (inflight[t].pc = "idle")

\* C31, supporting: a checkpoint whose git subprocess is waited for stays
\* in the call for ever; nothing in git_commit() ends the wait.
C31_WaitNeverEnds ==
    [][\A t \in Threads :
        inflight[t].pc = "wait" => inflight'[t] = inflight[t]]_vars

\* C31, supporting: a checkpoint in git_commit() either returns or is left
\* waiting for the git subprocess.
C31_ReturnsOrWaits ==
    \A t \in Threads :
        (inflight[t].pc = "git") ~> (inflight[t].pc \in {"idle", "wait"})

\* C31, supporting: a checkpoint is waiting for git while the files differ
\* from the last commit.
C31_WaitingDirty ==
    \E t \in Threads : inflight[t].pc = "wait" /\ WorkTree # head

\* str(n) of an integer: its decimal rendering
DigitChar(d) ==
    CASE d = 0 -> "0" [] d = 1 -> "1" [] d = 2 -> "2" [] d = 3 -> "3"
      [] d = 4 -> "4" [] d = 5 -> "5" [] d = 6 -> "6" [] d = 7 -> "7"
      [] d = 8 -> "8" [] d = 9 -> "9"

RECURSIVE Rendered(_)
Rendered(n) ==
    IF n < 0 THEN <<"-">> \o Rendered(0 - n)
    ELSE IF n < 10 THEN <<DigitChar(n)>>
    ELSE Rendered(n \div 10) \o <<DigitChar(n % 10)>>

\* the parts of an offer line as the routes split it
PartsOf(line) == Split(Strip(line), ",")

\* the stored offers are one for each of these lines
OfferPerLine(r, lines) ==
    lines # <<>> /\ Has(r, "priceOffers") /\ Len(r.priceOffers) = Len(lines)

\* C32: after a product create or update that was stored, every accepted
\* offer line without a label part has the label "<q>+ unidades", q being
\* the decimal rendering of the stored integer quantity of the same offer,
\* and every accepted line with a label part has that label stored.
C32_DefaultOfferLabel ==
    [][ProductWritten =>
        LET r == WrittenRecord(products', "new_product")
            lines == ParsingLines(resp'.form)
        IN OfferPerLine(r, lines) =>
             \A i \in DOMAIN lines :
                r.priceOffers[i].label =
                   IF Len(PartsOf(lines[i])) > 2 THEN PartsOf(lines[i])[3]
                   ELSE Rendered(r.priceOffers[i].quantity) \o UnitsSuffix]_vars

\* C32, supporting: a line with a label part stores that label.
C32_ExplicitLabelStored ==
    [][ProductWritten =>
        LET r == WrittenRecord(products', "new_product")
            lines == ParsingLines(resp'.form)
        IN OfferPerLine(r, lines) =>
             \A i \in DOMAIN lines :
                Len(PartsOf(lines[i])) > 2 =>
                   r.priceOffers[i].label = PartsOf(lines[i])[3]]_vars

\* C32, supporting: the default label is the quantity text as submitted
\* followed by "+ unidades"; it agrees with the stored quantity when that
\* text is the quantity's decimal rendering.
C32_DefaultLabelFromText ==
    [][ProductWritten =>
        LET r == WrittenRecord(products', "new_product")
            lines == ParsingLines(resp'.form)
        IN OfferPerLine(r, lines) =>
             \A i \in DOMAIN lines :
                Len(PartsOf(lines[i])) = 2 =>
                   /\ r.priceOffers[i].label =
                         PartsOf(lines[i])[1] \o UnitsSuffix
                   /\ PartsOf(lines[i])[1] =
                         Rendered(r.priceOffers[i].quantity) =>
                      r.priceOffers[i].label =
                         Rendered(r.priceOffers[i].quantity) \o UnitsSuffix]_vars

\* C32, supporting: the three-line text was stored: quantity 2 under the
\* labels "02+ unidades" and "2 + unidades", and the label "Trio".
C32_LabelledLinesStored ==
    /\ resp.op \in {"new_product", "edit_product"}
    /\ resp.status = 302
    /\ resp.type = "success"
    /\ Has(resp.form, "priceOffers")
    /\ resp.form.priceOffers = LabelledOfferLines
    /\ Has(products[1], "priceOffers")
    /\ Len(products[1].priceOffers) = 3
    /\ products[1].priceOffers[1].quantity = 2
    /\ products[1].priceOffers[1].label = <<"0", "2">> \o UnitsSuffix
    /\ products[1].priceOffers[2].quantity = 2
    /\ products[1].priceOffers[2].label = <<"2", " ">> \o UnitsSuffix
    /\ products[1].priceOffers[3].label = <<"T", "r", "i", "o">>

(***************************************************************************)
(* SpecFrame: the mutation routes on hand-written files.  The routes never *)
(* write an id twice, but load_products() and load_categories() take the   *)
(* lists as they are in the files, and those may hold an id twice and      *)
(* records without createdAt.                                              *)
(***************************************************************************)
DuplicatedProducts ==
    <<[id |-> <<"b">>, name |-> "", price |-> 0, categories |-> <<>>,
       createdAt |-> "2023-01-01"],
      [id |-> <<"a", "_">>, name |-> "Widget", price |-> 0,
       categories |-> <<>>],
      [id |-> <<"b">>, name |-> "Widget", price |-> 0, categories |-> <<>>]>>

DuplicatedCategories ==
    <<[id |-> <<"a", "_">>, name |-> "", icon |-> DefaultIcon,
       popular |-> FALSE],
      AllCategory,
      [id |-> <<"a", "_">>, name |-> "Widget", icon |-> DefaultIcon,
       popular |-> TRUE]>>

InitFrame ==
    /\ products \in {<<>>, DuplicatedProducts}
    /\ categories \in {<<>>, DuplicatedCategories}
    /\ settings = <<[showPrices |-> TRUE]>>
    /\ head = WorkTree
    /\ staged = FALSE
    /\ resp = NoRequest
    /\ inflight = NoneInFlight

\* the product forms with a price float() accepts and no category checked
FrameProductForms ==
    {form \in ProductForms : ~PriceRaises(form) /\ form.categories = <<>>}

NextFrame ==
    \/ SaveSettingsRoute
    \/ \E form \in FrameProductForms, today \in Dates :
          NewProduct(form, today, FormId(form))
    \/ \E product_id \in ProductUrlIds :
          EditProduct(product_id, FrameProductForms, FALSE)
    \/ DeleteProduct
    \/ NewCategoryPost
    \/ EditCategoryPost
    \/ DeleteCategory

SpecFrame == InitFrame /\ [][NextFrame]_vars

\* the step answered the request op with the success redirect
Succeeded(op) ==
    resp'.op = op /\ resp'.status = 302 /\ resp'.type = "success"

\* after is before with one record added at the end
AppendedTo(before, after) ==
    Len(after) = Len(before) + 1 /\ SubSeq(after, 1, Len(before)) = before

\* after is before but for the first record with this id, of which
\* createdAt is as it was
OnlyFirstChanged(before, after, an_id) ==
    /\ Len(after) = Len(before)
    /\ \E k \in DOMAIN before :
          /\ before[k].id = an_id
          /\ \A j \in 1..(k - 1) : before[j].id # an_id
          /\ \A j \in DOMAIN before : j # k => after[j] = before[j]
          /\ Has(after[k], "createdAt") <=> Has(before[k], "createdAt")
          /\ Has(before[k], "createdAt") =>
                after[k].createdAt = before[k].createdAt

RECURSIVE Others(_, _)
\* the records with another id, in their order
Others(records, an_id) ==
    IF records = <<>> THEN <<>>
    ELSE IF Head(records).id = an_id THEN Others(Tail(records), an_id)
    ELSE <<Head(records)>> \o Others(Tail(records), an_id)

\* C33: a successful create appends one record and leaves the existing ones
\* and their order as they were; a successful update changes only the
\* first record with the given id and keeps its createdAt; a delete leaves
\* exactly the records with another id, in their order; a product mutation
\* leaves categories and settings as they were, a category mutation leaves
\* products and settings as they were.
C33_MutationsTouchOnlyTarget ==
    [][/\ Succeeded("new_product") => AppendedTo(products, products')
       /\ Succeeded("edit_product") =>
             OnlyFirstChanged(products, products', resp'.id)
       /\ Succeeded("delete_product") =>
             products' = Others(products, resp'.id)
       /\ resp'.op \in {"new_product", "edit_product", "delete_product"} =>
             categories' = categories /\ settings' = settings
       /\ Succeeded("new_category") => AppendedTo(categories, categories')
       /\ Succeeded("edit_category") =>
             OnlyFirstChanged(categories, categories', resp'.id)
       /\ Succeeded("delete_category") =>
             categories' = Others(categories, resp'.id)
       /\ resp'.op \in {"new_category", "edit_category", "delete_category"} =>
             products' = products /\ settings' = settings]_vars

\* an update of id b was stored on the list that holds b twice: the first
\* record has the new name and its createdAt, the second b is as written
C33_Witness ==
    /\ resp.op = "edit_product"
    /\ resp.status = 302
    /\ resp.type = "success"
    /\ resp.id = <<"b">>
    /\ Len(products) = 3
    /\ products[1].name = "Widget"
    /\ products[1].createdAt = "2023-01-01"
    /\ products[2] = DuplicatedProducts[2]
    /\ products[3] = DuplicatedProducts[3]
    /\ categories = DuplicatedCategories

\* C33, supporting: a record was appended after an existing one.
C33_AppendedAfterExisting ==
    /\ resp.op = "new_product"
    /\ resp.status = 302
    /\ resp.type = "success"
    /\ Len(products) = 2

\* C33, supporting: a delete removed both records of an id and kept the
\* one between them.
C33_DeletedBoth ==
    /\ resp.op = "delete_category"
    /\ resp.status = 302
    /\ resp.id = <<"a", "_">>
    /\ categories = <<AllCategory>>

====
